---- MODULE Spec2Model ----
(***************************************************************************)
(* Model of qdimacs-splitter: the QDIMACS + integer-split parser           *)
(* (src/src/lib.rs parse_qdimacs), the split enumerator (produce_splits),  *)
(* the sub-formula emitter (src/src/main.rs process_formula_splits), the   *)
(* result reducer (reduce_result, produce_statistics_from_run) and the     *)
(* solver-log reader (src/src/lib.rs extract_result_from_file).            *)
(*                                                                         *)
(* Sequences are 1-based here and 0-based in the source: a source index i  *)
(* is the model index i + 1.                                               *)
(***************************************************************************)
EXTENDS Integers, Sequences, FiniteSets, TLC

VARIABLES
    pc,              \* position of the program: which function has run last
    text,            \* the input file, as the lines the grammar yields
    formula,         \* the Formula returned by parse_qdimacs
    depth,           \* the depth argument (--depth)
    vectors,         \* the assumption vectors returned by produce_splits
    subs,            \* the sub-formulas written by process_formula_splits
    results,         \* the leaf results handed to the reducer
    solver_results,  \* produce_statistics_from_run: the running vector
    quanttree_pos,   \* produce_statistics_from_run: the prefix position
    fold_splits,     \* produce_statistics_from_run: the reversed splits
    fold_done,       \* produce_statistics_from_run: how many are folded
    quant,           \* the Quantifier of the last reduce_result call
    width,           \* single_layer_width of the last reduce_result call
    log,             \* extract_result_from_file: the lines of the log
    line_nr,         \* extract_result_from_file: how many lines are read
    wall_seconds,    \* extract_result_from_file: the local wall_seconds
    result           \* extract_result_from_file: the local result

logvars == <<log, line_nr, wall_seconds, result>>

vars == <<pc, text, formula, depth, vectors, subs, results, solver_results,
          quanttree_pos, fold_splits, fold_done, quant, width,
          log, line_nr, wall_seconds, result>>

-----------------------------------------------------------------------------
(* Bounds of the model. *)

MaxPrefix == 3       \* longest quantifier prefix of an input
MaxSplits == 2       \* most IS lines of an input
MaxVars == 2         \* most explicit variables / longest Equals alternative
MaxBound == 3        \* largest bound of a LessThan / GreaterThan constraint
MaxAlts == 2         \* most alternatives of an Equals constraint
MaxConstraints == 2  \* most constraints of one split taken alone
MaxDepth == 4        \* largest depth argument
MaxLeaves == 4       \* most leaf results handed to the reducer
MaxResults == 4      \* longest vector handed to reduce_result alone
MaxHeader == 2       \* largest clause count stated by a problem line
MaxLogLines == 3     \* most lines of a solver log

(* Program constants. *)

WordBits == 64           \* width of the u64 whose bits view_bits yields
DefaultSplitLimit == 64  \* at most this many synthesized splits
TimeoutSeconds == 10000000  \* wall time of a Timeout produced by the reducer

(* usize::MAX, the value a wrapping usize subtraction 0 - 1 yields.  The   *)
(* model's integers are narrower than 64 bits; only comparisons of this    *)
(* value with lengths are made, and it exceeds every length of the model.  *)
UsizeMax == 2 ^ 30

-----------------------------------------------------------------------------
(* Helpers. *)

Min(a, b) == IF a < b THEN a ELSE b

Abs(x) == IF x < 0 THEN -x ELSE x

RECURSIVE SumSeq(_)
SumSeq(s) == IF s = <<>> THEN 0 ELSE s[1] + SumSeq(Tail(s))

RECURSIVE Flatten(_)
Flatten(ss) == IF ss = <<>> THEN <<>> ELSE ss[1] \o Flatten(Tail(ss))

Reverse(s) == [i \in 1..Len(s) |-> s[Len(s) + 1 - i]]

SeqsUpTo(S, lo, hi) == UNION {[1..n -> S] : n \in lo..hi}

(* x.view_bits::<Lsb0>() of a w-bit word: bit i of x at (0-based) index i. *)
(* Every x of the model is below 2^30, so its bits from 30 on are 0.       *)
ViewBitsLsb0(x, w) ==
    [i \in 1..w |-> IF i > 30 THEN 0 ELSE (x \div (2 ^ (i - 1))) % 2]

-----------------------------------------------------------------------------
(* SolverReturnCode, SolverResult, Quantifier. *)

SolverReturnCode == {"Sat", "Unsat", "Timeout"}

SolverResult(w, r) == [wall_seconds |-> w, result |-> r]

-----------------------------------------------------------------------------
(* IntegerSplitConstraint and IntegerSplit. *)

(* to_u64: fold(0, |acc, b| acc * 2 + b) over the slice, b = 1 iff x > 0.  *)
RECURSIVE to_u64(_)
to_u64(slice) ==
    IF slice = <<>> THEN 0
    ELSE to_u64(SubSeq(slice, 1, Len(slice) - 1)) * 2
         + (IF slice[Len(slice)] > 0 THEN 1 ELSE 0)

(* Mutant of ConstraintSatisfied: LessThan compares with <=. *)
ConstraintSatisfied_LessOrEqual(c, bits, num) ==
    CASE c.kind = "LessThan" -> num <= c.target[1][1]
      [] c.kind = "GreaterThan" -> num > c.target[1][1]
      [] c.kind = "Equals" ->
            \E t \in 1..Len(c.target) :
                \A p \in 1..Min(Len(bits), Len(c.target[t])) :
                    \/ (c.target[t][p] = 1 /\ bits[p] > 0)
                    \/ (c.target[t][p] = 0 /\ bits[p] < 0)

(* IntegerSplitConstraint::satisfied.  zip stops at the shorter of bits    *)
(* and the alternative.                                                    *)
ConstraintSatisfied(c, bits, num) ==
    CASE c.kind = "LessThan" -> num < c.target[1][1]
      [] c.kind = "GreaterThan" -> num > c.target[1][1]
      [] c.kind = "Equals" ->
            \E t \in 1..Len(c.target) :
                \A p \in 1..Min(Len(bits), Len(c.target[t])) :
                    \/ (c.target[t][p] = 1 /\ bits[p] > 0)
                    \/ (c.target[t][p] = 0 /\ bits[p] < 0)

satisfied_with_num(s, v, num) ==
    \E x \in 1..Len(s.constraints) : ConstraintSatisfied(s.constraints[x], v, num)

(* IntegerSplit::satisfied; its assert!(v.len() < 64) holds of every slice *)
(* of the model.                                                           *)
satisfied(s, v) == satisfied_with_num(s, v, to_u64(v))

(* IntegerSplit::nr_of_splits.  The vector v handed to satisfied_with_num  *)
(* is built from the bits of n = 2^|vars| (not of i), as 0 / 1 values.     *)
nr_of_splits(s) ==
    LET n == 2 ^ Len(s.vars)
        v == ViewBitsLsb0(n, WordBits)
    IN  Cardinality({i \in 0..(n - 1) : satisfied_with_num(s, v, i)})

-----------------------------------------------------------------------------
(* Formula: the enumerator. *)

(* embedded_splits_round_fitting: (computed_depth, split_count). *)
RECURSIVE RoundFitting(_, _, _, _)
RoundFitting(splits, d, computed_depth, split_count) ==
    IF splits = <<>> THEN <<computed_depth, split_count>>
    ELSE LET d2 == d - Len(splits[1].vars)
         IN  IF d2 >= 0
             THEN RoundFitting(Tail(splits), d2,
                               computed_depth + Len(splits[1].vars),
                               split_count + 1)
             ELSE <<computed_depth, split_count>>

embedded_splits_round_fitting(f, d) == RoundFitting(f.splits, d, 0, 0)

(* Mutant of FormulaVarsItem: the zipped literals are not reversed back,   *)
(* so the last variable comes first.                                       *)
FormulaVarsItem_NotReversed(f, splits_depth, idx) ==
    LET bv == ViewBitsLsb0(idx, WordBits)
        vs == Flatten([i \in 1..splits_depth |-> f.splits[i].vars])
        rv == Reverse(vs)
        m == Min(Len(bv), Len(rv))
    IN  [p \in 1..m |-> IF bv[p] = 1 THEN rv[p] ELSE rv[p] * (-1)]

(* FormulaVars::next for the index idx: the bits of idx, least significant *)
(* first, zipped with the reversed variables, and reversed again.          *)
FormulaVarsItem(f, splits_depth, idx) ==
    LET bv == ViewBitsLsb0(idx, WordBits)
        vs == Flatten([i \in 1..splits_depth |-> f.splits[i].vars])
        rv == Reverse(vs)
        m == Min(Len(bv), Len(rv))
        zipped == [p \in 1..m |-> IF bv[p] = 1 THEN rv[p] ELSE rv[p] * (-1)]
    IN  Reverse(zipped)

(* iterate_possible_vars: the items for idx = 0 .. 2^bit_depth - 1. *)
iterate_possible_vars(f, bit_depth, splits_depth) ==
    [k \in 1..(2 ^ bit_depth) |-> FormulaVarsItem(f, splits_depth, k - 1)]

(* The filter of produce_splits_from_embedded: all splits satisfied on     *)
(* their own range of x.                                                    *)
EmbeddedFilter(f, splits_depth, x) ==
    LET split_var_lengths == [i \in 1..splits_depth |-> Len(f.splits[i].vars)]
        begin(i) == SumSeq(SubSeq(split_var_lengths, 1, i - 1))
    IN  \A i \in 1..splits_depth :
            satisfied(f.splits[i],
                      SubSeq(x, begin(i) + 1, begin(i) + split_var_lengths[i]))

produce_splits_from_embedded(f, bit_depth, splits_depth) ==
    LET Keep(x) == EmbeddedFilter(f, splits_depth, x)
    IN  SelectSeq(iterate_possible_vars(f, bit_depth, splits_depth), Keep)

produce_splits_from_prefix_expansion(f, bit_depth) ==
    LET d == Min(bit_depth, Len(f.prefix))
    IN  [k \in 1..(2 ^ d) |->
            LET bv == ViewBitsLsb0(k - 1, WordBits)
            IN  [i \in 1..d |->
                    IF bv[i] = 1 THEN Abs(f.prefix[i]) ELSE -Abs(f.prefix[i])]]

produce_splits(f, d) ==
    IF Len(f.splits) > 0
    THEN LET rf == embedded_splits_round_fitting(f, d)
         IN  produce_splits_from_embedded(f, rf[1], rf[2])
    ELSE produce_splits_from_prefix_expansion(f, Min(d, Len(f.prefix)))

-----------------------------------------------------------------------------
(* parse_qdimacs.  The input is given as the lines the grammar yields:     *)
(* the problem line, the quant_set lines, the int_split lines (variables   *)
(* and constraint groups as written) and the clause lines.                 *)

(* Rule::quant_set: the entries one quantifier line appends to the prefix. *)
QuantSetEntries(line) ==
    [i \in 1..Len(line.vars) |->
        IF line.quantifier = "e" THEN line.vars[i] * (-1) ELSE line.vars[i]]

ParsedPrefix(t) ==
    Flatten([i \in 1..Len(t.quant_sets) |-> QuantSetEntries(t.quant_sets[i])])

(* var_constraint_to_nr_of_bits: ceil(log2(v)) for v >= 1. *)
var_constraint_to_nr_of_bits(v) ==
    CHOOSE n \in 0..30 : 2 ^ n >= v /\ \A m \in 0..(n - 1) : 2 ^ m < v

FixupBits(s) ==
    IF s.constraints[1].kind \in {"LessThan", "GreaterThan"}
    THEN var_constraint_to_nr_of_bits(s.constraints[1].target[1][1])
    ELSE Len(s.constraints[1].target[1])

(* The fixup loop over the splits from the cursor prefix_start on:         *)
(* [panicked, splits].  Slicing the prefix past its end panics.            *)
RECURSIVE FixupSplits(_, _, _)
FixupSplits(splits, prefix, prefix_start) ==
    IF splits = <<>> THEN [panicked |-> FALSE, splits |-> <<>>]
    ELSE LET s == splits[1]
             nr_of_bits == IF Len(s.constraints) < 1 THEN 0 ELSE FixupBits(s)
             inferred == Len(s.vars) = 0
             next_start == IF inferred THEN prefix_start + nr_of_bits
                           ELSE prefix_start + Len(s.vars)
             fixed == IF inferred
                      THEN [s EXCEPT !.vars =
                               [i \in 1..nr_of_bits |-> Abs(prefix[prefix_start + i])]]
                      ELSE s
         IN  IF Len(s.constraints) < 1 THEN [panicked |-> TRUE, splits |-> <<>>]
             ELSE IF inferred /\ next_start > Len(prefix)
             THEN [panicked |-> TRUE, splits |-> <<>>]
             ELSE LET rest == FixupSplits(Tail(splits), prefix, next_start)
                  IN  [panicked |-> rest.panicked,
                       splits |-> <<fixed>> \o rest.splits]

(* Mutant of DefaultSplits: no limit on the number of synthesized splits. *)
DefaultSplits_Unlimited(prefix) ==
    [i \in 1..Len(prefix) |->
        [vars |-> <<Abs(prefix[i])>>,
         constraints |-> <<[kind |-> "LessThan", target |-> <<<<2>>>>]>>]]

(* Default splitting: one LessThan 2 split per prefix entry, at most 64. *)
DefaultSplits(prefix) ==
    [i \in 1..Min(Len(prefix), DefaultSplitLimit) |->
        [vars |-> <<Abs(prefix[i])>>,
         constraints |-> <<[kind |-> "LessThan", target |-> <<<<2>>>>]>>]]

sign(n) == IF n > 0 THEN 1 ELSE -1

(* prefix.iter().position(|q| q.abs() == v): 0 stands for None. *)
PrefixPosition(prefix, v) ==
    IF \E i \in 1..Len(prefix) : Abs(prefix[i]) = v
    THEN CHOOSE i \in 1..Len(prefix) :
            /\ Abs(prefix[i]) = v
            /\ \A j \in 1..(i - 1) : Abs(prefix[j]) # v
    ELSE 0

(* The consistency loop over the variables vs of one split: TRUE when it   *)
(* panics (a variable missing from the prefix, or two quantifier types).   *)
RECURSIVE ConsistencyPanics(_, _, _)
ConsistencyPanics(prefix, vs, last_q) ==
    IF vs = <<>> THEN FALSE
    ELSE LET q_pos == PrefixPosition(prefix, vs[1])
         IN  IF q_pos = 0 THEN TRUE
             ELSE LET q == prefix[q_pos]
                  IN  IF last_q # 0 /\ sign(last_q) # sign(q) THEN TRUE
                      ELSE ConsistencyPanics(prefix, Tail(vs), q)

(* parse_qdimacs: [panicked, formula]. *)
parse_qdimacs(t) ==
    LET prefix == ParsedPrefix(t)
        fixup == FixupSplits(t.int_split_lines, prefix, 0)
        splits == IF Len(fixup.splits) = 0 /\ Len(prefix) > 0
                  THEN DefaultSplits(prefix)
                  ELSE fixup.splits
        bad == \/ fixup.panicked
               \/ \E i \in 1..Len(splits) :
                     ConsistencyPanics(prefix, splits[i].vars, 0)
    IN  [panicked |-> bad,
         formula |-> [splits |-> splits,
                      prefix |-> prefix,
                      matrix |-> t.clauses,
                      nr_of_variables |-> t.nr_of_variables,
                      nr_of_clauses |-> t.nr_of_clauses]]

NoFormula ==
    [splits |-> <<>>, prefix |-> <<>>, matrix |-> <<>>,
     nr_of_variables |-> 0, nr_of_clauses |-> 0]

-----------------------------------------------------------------------------
(* process_formula_splits. *)

(* The inner loop over the literals of one assumption vector from the      *)
(* (1-based) position j on: [panicked, formula].  prefix[j] is read only   *)
(* when the prefix is not empty; reading past its end panics.              *)
RECURSIVE AssumeFrom(_, _, _)
AssumeFrom(assumed_f, v, j) ==
    IF j > Len(v) THEN [panicked |-> FALSE, formula |-> assumed_f]
    ELSE IF assumed_f.prefix # <<>> /\ j > Len(assumed_f.prefix)
    THEN [panicked |-> TRUE, formula |-> assumed_f]
    ELSE LET flipped ==
                 IF assumed_f.prefix # <<>> /\ assumed_f.prefix[j] > 0
                 THEN [assumed_f.prefix EXCEPT ![j] = -assumed_f.prefix[j]]
                 ELSE assumed_f.prefix
         IN  AssumeFrom([assumed_f EXCEPT
                            !.prefix = flipped,
                            !.matrix = Append(assumed_f.matrix, <<v[j]>>),
                            !.nr_of_clauses = assumed_f.nr_of_clauses + 1],
                        v, j + 1)

(* The sub-formula of every assumption vector of splits. *)
AssumedFormulas(f, splits) ==
    [i \in 1..Len(splits) |-> AssumeFrom(f, splits[i], 1)]

(* process_formula_splits: [panicked, written]; the files written before   *)
(* the first panic stay written.                                           *)
process_formula_splits(f, d) ==
    LET all == AssumedFormulas(f, produce_splits(f, d))
        bad == {i \in 1..Len(all) : all[i].panicked}
        n == IF bad = {} THEN Len(all)
             ELSE (CHOOSE i \in bad : \A k \in bad : i <= k) - 1
    IN  [panicked |-> bad # {},
         written |-> [i \in 1..n |-> all[i].formula]]

-----------------------------------------------------------------------------
(* reduce_result. *)

Chunk(rs, x, w) == SubSeq(rs, (x - 1) * w + 1, x * w)

WallsOf(chunk, code) ==
    {chunk[i].wall_seconds : i \in {k \in 1..Len(chunk) : chunk[k].result = code}}

min_of(chunk, code) ==
    CHOOSE t \in WallsOf(chunk, code) : \A u \in WallsOf(chunk, code) : t <= u

max_of(chunk, code) ==
    CHOOSE t \in WallsOf(chunk, code) : \A u \in WallsOf(chunk, code) : t >= u

AnyIs(chunk, code) == \E i \in 1..Len(chunk) : chunk[i].result = code

AllAre(chunk, code) == \A i \in 1..Len(chunk) : chunk[i].result = code

(* Mutant of ReduceChunk: an existential Sat takes the maximum wall time   *)
(* of the Sat elements.                                                    *)
ReduceChunk_MaxOfSat(q, chunk) ==
    IF q = "Exists"
    THEN IF AnyIs(chunk, "Sat")
         THEN SolverResult(max_of(chunk, "Sat"), "Sat")
         ELSE IF AllAre(chunk, "Unsat")
              THEN SolverResult(max_of(chunk, "Unsat"), "Unsat")
              ELSE SolverResult(TimeoutSeconds, "Timeout")
    ELSE IF AllAre(chunk, "Sat")
         THEN SolverResult(max_of(chunk, "Sat"), "Sat")
         ELSE IF AnyIs(chunk, "Unsat")
              THEN SolverResult(min_of(chunk, "Unsat"), "Unsat")
              ELSE SolverResult(TimeoutSeconds, "Timeout")

(* The closure reduce_result maps over the chunks. *)
ReduceChunk(q, chunk) ==
    IF q = "Exists"
    THEN IF AnyIs(chunk, "Sat")
         THEN SolverResult(min_of(chunk, "Sat"), "Sat")
         ELSE IF AllAre(chunk, "Unsat")
              THEN SolverResult(max_of(chunk, "Unsat"), "Unsat")
              ELSE SolverResult(TimeoutSeconds, "Timeout")
    ELSE IF AllAre(chunk, "Sat")
         THEN SolverResult(max_of(chunk, "Sat"), "Sat")
         ELSE IF AnyIs(chunk, "Unsat")
              THEN SolverResult(min_of(chunk, "Unsat"), "Unsat")
              ELSE SolverResult(TimeoutSeconds, "Timeout")

(* reduce_result for single_layer_width > 0 (the caller checks the assert). *)
reduce_result(q, single_layer_width, rs) ==
    LET result_count == Len(rs) \div single_layer_width
    IN  [x \in 1..result_count |-> ReduceChunk(q, Chunk(rs, x, single_layer_width))]

(* quant_from_prefix; pos is the 0-based position of the source. *)
quant_from_prefix(f, pos) ==
    IF pos >= Len(f.prefix) THEN "Exists"
    ELSE IF f.prefix[pos + 1] < 0 THEN "Exists"
    ELSE "Forall"

-----------------------------------------------------------------------------
(* extract_result_from_file.  A log line is the sequence of its            *)
(* characters; each of the two literal texts the probes look for stands    *)
(* as one element.                                                         *)

RunlimText == "[runlim] real:"

ExitedText == "Command exited with non-zero status "

DigitChars == {"0", "1", "2", "3", "4", "5", "6", "7", "8", "9"}

SpaceChars == {" "}

DigitValue(c) ==
    CASE c = "0" -> 0 [] c = "1" -> 1 [] c = "2" -> 2 [] c = "3" -> 3
      [] c = "4" -> 4 [] c = "5" -> 5 [] c = "6" -> 6 [] c = "7" -> 7
      [] c = "8" -> 8 [] c = "9" -> 9

(* The length of the longest run of characters of S that starts at i: what *)
(* a greedy \d+ or \s* consumes there.                                     *)
RECURSIVE RunLength(_, _, _)
RunLength(line, i, S) ==
    IF i <= Len(line) /\ line[i] \in S THEN 1 + RunLength(line, i + 1, S) ELSE 0

(* None of captures(): no capture is empty. *)
NoCapture == <<>>

(* EXIT_CODE.captures(&line).get(1): "Command exited with non-zero status  *)
(* (\d+)", unanchored, at its leftmost match.                              *)
EXIT_CODE(line) ==
    LET hits == {i \in 1..Len(line) :
                    line[i] = ExitedText /\ RunLength(line, i + 1, DigitChars) >= 1}
    IN  IF hits = {} THEN NoCapture
        ELSE LET i == CHOOSE h \in hits : \A j \in hits : h <= j
             IN  SubSeq(line, i + 1, i + RunLength(line, i + 1, DigitChars))

(* WALL_TIME.captures(&line).get(1): "^\[runlim\] real:\s*(\d+(?:\.\d+))". *)
(* The group "(?:\.\d+)" is not optional.                                  *)
WALL_TIME(line) ==
    IF line = <<>> \/ line[1] # RunlimText THEN NoCapture
    ELSE LET s == 2 + RunLength(line, 2, SpaceChars)
             w == RunLength(line, s, DigitChars)
             f == IF s + w <= Len(line) /\ line[s + w] = "."
                  THEN RunLength(line, s + w + 1, DigitChars)
                  ELSE 0
         IN  IF w >= 1 /\ f >= 1 THEN SubSeq(line, s, s + w + f) ELSE NoCapture

(* The match on exit_code.as_str(). *)
ExitCodeOf(capture) ==
    IF capture = <<"1", "0">> THEN "Sat"
    ELSE IF capture = <<"2", "0">> THEN "Unsat"
    ELSE "Timeout"

RECURSIVE DigitsValue(_)
DigitsValue(ds) ==
    IF ds = <<>> THEN 0
    ELSE DigitsValue(SubSeq(ds, 1, Len(ds) - 1)) * 10 + DigitValue(ds[Len(ds)])

RECURSIVE StripTrailingZeros(_)
StripTrailingZeros(ds) ==
    IF ds # <<>> /\ ds[Len(ds)] = "0"
    THEN StripTrailingZeros(SubSeq(ds, 1, Len(ds) - 1))
    ELSE ds

(* parse::<f64>() of digits with an optional fraction: the value as its    *)
(* whole part and its fraction digits, which identifies the f64 of the     *)
(* short decimals of the model ("2.50" and "2.5" are the same number).     *)
ParseF64(str) ==
    LET dots == {i \in 1..Len(str) : str[i] = "."}
        d == IF dots = {} THEN Len(str) + 1
             ELSE CHOOSE i \in dots : \A j \in dots : i <= j
    IN  [whole |-> DigitsValue(SubSeq(str, 1, d - 1)),
         frac |-> StripTrailingZeros(SubSeq(str, d + 1, Len(str)))]

(* 0.0 *)
F64Zero == [whole |-> 0, frac |-> <<>>]

-----------------------------------------------------------------------------
(* The inputs: what the grammar (qdimacs.pest) yields for a file. *)

(* A prefix over the variables 1..n, written one quantifier line per       *)
(* variable; the variables of es are existential.                          *)
QuantLines(n, es) ==
    [i \in 1..n |-> [quantifier |-> IF i \in es THEN "e" ELSE "a", vars |-> <<i>>]]

QuantSets(maxLen) ==
    UNION {{QuantLines(n, es) : es \in SUBSET (1..n)} : n \in 0..maxLen}

BoundConstraints ==
    {[kind |-> k, target |-> <<<<b>>>>] :
        k \in {"LessThan", "GreaterThan"}, b \in 1..MaxBound}

(* "=" groups: 1..MaxAlts binary tokens of one common length. *)
EqualsConstraints ==
    UNION {{[kind |-> "Equals", target |-> tg] :
               tg \in SeqsUpTo([1..l -> {0, 1}], 1, MaxAlts)} : l \in 1..MaxVars}

Constraints == BoundConstraints \cup EqualsConstraints

(* The variables written on an IS line: up to MaxVars distinct ones of     *)
(* 1..n, in any order.                                                     *)
ExplicitVars(n) ==
    {vs \in SeqsUpTo(1..n, 1, MaxVars) :
        \A i \in 1..Len(vs) : \A j \in (i + 1)..Len(vs) : vs[i] # vs[j]}

IntSplitLines(varsOptions, constraintLists) ==
    {[vars |-> vs, constraints |-> cs] : vs \in varsOptions, cs \in constraintLists}

(* A file with the quantifier lines qs, the IS lines is, and one clause    *)
(* over all its variables (none when it has no variable).                  *)
InputText(qs, is) ==
    [nr_of_variables |-> Len(qs),
     nr_of_clauses |-> IF Len(qs) = 0 THEN 0 ELSE 1,
     quant_sets |-> qs,
     int_split_lines |-> is,
     clauses |-> IF Len(qs) = 0 THEN <<>> ELSE <<[i \in 1..Len(qs) |-> i]>>]

LessThanConstraints == {c \in BoundConstraints : c.kind = "LessThan"}

(* IS lines of the files split and emitted: a line without variables and   *)
(* any one constraint, or a line with variables and one LessThan bound.    *)
PipelineLines ==
    IntSplitLines({<<>>}, {<<c>> : c \in Constraints})
    \cup IntSplitLines(ExplicitVars(MaxPrefix), {<<c>> : c \in LessThanConstraints})

(* A file without IS lines whose prefix is one entry longer than the       *)
(* limit of the default splitting.                                         *)
LongPrefixText ==
    InputText(QuantLines(DefaultSplitLimit + 1, 1..(DefaultSplitLimit + 1)), <<>>)

(* Files whose problem line states any clause count up to MaxHeader: the   *)
(* grammar does not compare it with the clause lines.  At most one IS      *)
(* line, written without variables, with one LessThan bound.               *)
HeaderTexts ==
    {[InputText(qs, is) EXCEPT !.nr_of_clauses = c] :
        qs \in QuantSets(MaxPrefix),
        is \in SeqsUpTo(IntSplitLines({<<>>}, {<<b>> : b \in LessThanConstraints}),
                        0, 1),
        c \in 0..MaxHeader}

PipelineTexts ==
    {InputText(qs, is) :
        qs \in QuantSets(MaxPrefix), is \in SeqsUpTo(PipelineLines, 0, MaxSplits)}
    \cup {LongPrefixText}
    \cup HeaderTexts

-----------------------------------------------------------------------------
(* The state machine. *)

LogIdle ==
    /\ log = <<>>
    /\ line_nr = 0
    /\ wall_seconds = F64Zero
    /\ result = "Timeout"

Idle ==
    /\ LogIdle
    /\ formula = NoFormula
    /\ depth = 0
    /\ vectors = <<>>
    /\ subs = <<>>
    /\ results = <<>>
    /\ solver_results = <<>>
    /\ quanttree_pos = 0
    /\ fold_splits = <<>>
    /\ fold_done = 0
    /\ quant = "Exists"
    /\ width = 0

Init ==
    /\ pc = "start"
    /\ text \in PipelineTexts
    /\ Idle

(* parse_qdimacs(text): a Formula, or a panic. *)
ParseQdimacs ==
    /\ pc = "start"
    /\ LET r == parse_qdimacs(text)
       IN  /\ pc' = IF r.panicked THEN "parse_panic" ELSE "parsed"
           /\ formula' = IF r.panicked THEN NoFormula ELSE r.formula
    /\ UNCHANGED <<text, depth, vectors, subs, results, solver_results,
                   quanttree_pos, fold_splits, fold_done, quant, width>>
    /\ UNCHANGED logvars

(* formula.produce_splits(d). *)
ProduceSplits ==
    /\ pc = "parsed"
    /\ \E d \in 0..MaxDepth :
          /\ depth' = d
          /\ vectors' = produce_splits(formula, d)
    /\ pc' = "split"
    /\ UNCHANGED <<text, formula, subs, results, solver_results,
                   quanttree_pos, fold_splits, fold_done, quant, width>>
    /\ UNCHANGED logvars

(* process_formula_splits(&formula, d, ..): one sub-formula per vector. *)
ProcessFormulaSplits ==
    /\ pc = "parsed"
    /\ \E d \in 0..MaxDepth :
          LET r == process_formula_splits(formula, d)
          IN  /\ depth' = d
              /\ vectors' = produce_splits(formula, d)
              /\ subs' = r.written
              /\ pc' = IF r.panicked THEN "emit_panic" ELSE "emitted"
    /\ UNCHANGED <<text, formula, results, solver_results,
                   quanttree_pos, fold_splits, fold_done, quant, width>>
    /\ UNCHANGED logvars

Next == ParseQdimacs \/ ProduceSplits \/ ProcessFormulaSplits

Spec == Init /\ [][Next]_vars

(* The same program on the files without IS line only. *)
DefaultTexts ==
    {InputText(qs, <<>>) : qs \in QuantSets(MaxPrefix)} \cup {LongPrefixText}

InitDefault ==
    /\ pc = "start"
    /\ text \in DefaultTexts
    /\ Idle

SpecDefault == InitDefault /\ [][Next]_vars

-----------------------------------------------------------------------------
(* Merge mode: extract_results_from_files, produce_statistics_from_run. *)

(* Files merged: at most MaxSplits IS lines, written without variables,    *)
(* each with one constraint.                                               *)
MergeTexts ==
    {InputText(qs, is) :
        qs \in QuantSets(MaxPrefix),
        is \in SeqsUpTo(IntSplitLines({<<>>}, {<<c>> : c \in Constraints}),
                        0, MaxSplits)}

InitMerge ==
    /\ pc = "start"
    /\ text \in MergeTexts
    /\ Idle

(* extract_results_from_files: one result per vector of produce_splits(d). *)
(* The log of split ID i reports any return code; its wall time is taken   *)
(* to be i + 1 seconds.                                                    *)
ExtractResults ==
    /\ pc = "parsed"
    /\ \E d \in 0..MaxDepth :
          LET splits == produce_splits(formula, d)
          IN  /\ Len(splits) <= MaxLeaves
              /\ depth' = d
              /\ vectors' = splits
              /\ \E codes \in [1..Len(splits) -> SolverReturnCode] :
                    results' = [i \in 1..Len(splits) |-> SolverResult(i, codes[i])]
    /\ pc' = "merge"
    /\ UNCHANGED <<text, formula, subs, solver_results,
                   quanttree_pos, fold_splits, fold_done, quant, width>>
    /\ UNCHANGED logvars

(* produce_statistics_from_run up to its loop, with the split_count main   *)
(* computes.  splits_depth - 1 underflows when splits_depth = 0: the       *)
(* subtraction panics where overflow checks are on and wraps otherwise.    *)
StatisticsBegin ==
    /\ pc = "merge"
    /\ LET split_count == embedded_splits_round_fitting(formula, depth)[2]
           splits == Reverse(SubSeq(formula.splits, 1, split_count))
           splits_depth == SumSeq([i \in 1..Len(splits) |-> Len(splits[i].vars)])
       IN  /\ fold_splits' = splits
           /\ fold_done' = 0
           /\ solver_results' = results
           /\ IF splits_depth = 0
              THEN \/ /\ pc' = "underflow_panic"
                      /\ quanttree_pos' = quanttree_pos
                   \/ /\ pc' = "fold"
                      /\ quanttree_pos' = UsizeMax
              ELSE /\ pc' = "fold"
                   /\ quanttree_pos' = splits_depth - 1
    /\ UNCHANGED <<text, formula, depth, vectors, subs, results, quant, width>>
    /\ UNCHANGED logvars

(* One iteration of the loop of produce_statistics_from_run.  The          *)
(* assert!(single_layer_width > 0) of reduce_result panics on a width 0.   *)
FoldStep ==
    /\ pc = "fold"
    /\ fold_done < Len(fold_splits)
    /\ LET s == fold_splits[fold_done + 1]
           n == nr_of_splits(s)
           q == quant_from_prefix(formula, quanttree_pos)
       IN  /\ quant' = q
           /\ width' = n
           /\ fold_done' = fold_done + 1
           /\ IF n > 0
              THEN /\ solver_results' = reduce_result(q, n, solver_results)
                   /\ quanttree_pos' = IF quanttree_pos > Len(s.vars)
                                       THEN quanttree_pos - Len(s.vars)
                                       ELSE quanttree_pos
                   /\ pc' = "fold"
              ELSE /\ pc' = "width_panic"
                   /\ UNCHANGED <<solver_results, quanttree_pos>>
    /\ UNCHANGED <<text, formula, depth, vectors, subs, results, fold_splits>>
    /\ UNCHANGED logvars

(* After the loop: the assert that solver_results has length 1. *)
StatisticsEnd ==
    /\ pc = "fold"
    /\ fold_done = Len(fold_splits)
    /\ pc' = IF Len(solver_results) = 1 THEN "done" ELSE "len_panic"
    /\ UNCHANGED <<text, formula, depth, vectors, subs, results, solver_results,
                   quanttree_pos, fold_splits, fold_done, quant, width>>
    /\ UNCHANGED logvars

NextMerge ==
    ParseQdimacs \/ ExtractResults \/ StatisticsBegin \/ FoldStep \/ StatisticsEnd

SpecMerge == InitMerge /\ [][NextMerge]_vars

-----------------------------------------------------------------------------
(* One split taken alone: nr_of_splits against the enumerator. *)

(* Files with the prefix e 1 .. MaxVars and one IS line, written without   *)
(* variables or with the first k prefix variables, with up to              *)
(* MaxConstraints constraints.                                             *)
SplitTextsOf(maxConstraints) ==
    {InputText(QuantLines(MaxVars, 1..MaxVars), <<l>>) :
        l \in IntSplitLines({[i \in 1..k |-> i] : k \in 0..MaxVars},
                            SeqsUpTo(Constraints, 1, maxConstraints))}

SplitTexts == SplitTextsOf(MaxConstraints)

InitSplit ==
    /\ pc = "start"
    /\ text \in SplitTexts
    /\ Idle

(* formula.splits[0].nr_of_splits(). *)
NrOfSplits ==
    /\ pc = "parsed"
    /\ width' = nr_of_splits(formula.splits[1])
    /\ pc' = "counted"
    /\ UNCHANGED <<text, formula, depth, vectors, subs, results, solver_results,
                   quanttree_pos, fold_splits, fold_done, quant>>
    /\ UNCHANGED logvars

(* The enumerator over the variables of the split alone: produce_splits    *)
(* at the depth |vars|.                                                    *)
EnumerateAlone ==
    /\ pc = "counted"
    /\ depth' = Len(formula.splits[1].vars)
    /\ vectors' = produce_splits(formula, Len(formula.splits[1].vars))
    /\ pc' = "alone"
    /\ UNCHANGED <<text, formula, subs, results, solver_results,
                   quanttree_pos, fold_splits, fold_done, quant, width>>
    /\ UNCHANGED logvars

NextSplit == ParseQdimacs \/ NrOfSplits \/ EnumerateAlone

SpecSplit == InitSplit /\ [][NextSplit]_vars

(* The same on the splits with a single constraint. *)
InitSingle ==
    /\ pc = "start"
    /\ text \in SplitTextsOf(1)
    /\ Idle

SpecSingle == InitSingle /\ [][NextSplit]_vars

-----------------------------------------------------------------------------
(* reduce_result alone. *)

(* The wall times of the leaves. *)
WallTimes == {3, 5, 7, 9}

LeafResults == {SolverResult(w, r) : w \in WallTimes, r \in SolverReturnCode}

NoText == InputText(<<>>, <<>>)

InitReduce ==
    /\ pc = "reduce_start"
    /\ LogIdle
    /\ text = NoText
    /\ formula = NoFormula
    /\ depth = 0
    /\ vectors = <<>>
    /\ subs = <<>>
    /\ results \in SeqsUpTo(LeafResults, 0, MaxResults)
    /\ solver_results = <<>>
    /\ quanttree_pos = 0
    /\ fold_splits = <<>>
    /\ fold_done = 0
    /\ quant = "Exists"
    /\ width = 0

(* reduce_result(q, w, results), its assert included. *)
ReduceResult ==
    /\ pc = "reduce_start"
    /\ \E q \in {"Exists", "Forall"}, w \in 0..MaxResults :
          /\ quant' = q
          /\ width' = w
          /\ IF w > 0
             THEN /\ solver_results' = reduce_result(q, w, results)
                  /\ pc' = "reduced"
             ELSE /\ solver_results' = solver_results
                  /\ pc' = "width_panic"
    /\ UNCHANGED <<text, formula, depth, vectors, subs, results,
                   quanttree_pos, fold_splits, fold_done>>
    /\ UNCHANGED logvars

NextReduce == ReduceResult

SpecReduce == InitReduce /\ [][NextReduce]_vars

-----------------------------------------------------------------------------
(* extract_result_from_file alone. *)

ExitNumbers == {<<"1", "0">>, <<"2", "0">>, <<"1">>, <<"1", "0", "0">>}

WallNumbers == {<<"1", ".", "5">>, <<"2", ".", "5", "0">>, <<"3">>, <<"3", ".">>}

(* Lines of a log: exit-status lines, also with text around and without a  *)
(* number; runlim lines with a fractional or a whole number, also not at   *)
(* the start of the line; a line with both; lines with neither.            *)
LogLines ==
    {<<ExitedText>> \o n : n \in ExitNumbers}
    \cup {<<"x", ExitedText, "1", "0">>, <<ExitedText, "2", "0", "x">>,
          <<ExitedText>>, <<ExitedText, "x", "1", "0">>}
    \cup {<<RunlimText>> \o sp \o n : sp \in {<<>>, <<" ">>}, n \in WallNumbers}
    \cup {<<"x", RunlimText, " ", "1", ".", "5">>, <<RunlimText, " ", "x">>}
    \cup {<<RunlimText, " ", "0", ".", "2", "5", " ", ExitedText, "2", "0">>}
    \cup {<<>>, <<"x">>}

Logs == SeqsUpTo(LogLines, 0, MaxLogLines)

InitLog ==
    /\ pc = "scan"
    /\ text = NoText
    /\ formula = NoFormula
    /\ depth = 0
    /\ vectors = <<>>
    /\ subs = <<>>
    /\ results = <<>>
    /\ solver_results = <<>>
    /\ quanttree_pos = 0
    /\ fold_splits = <<>>
    /\ fold_done = 0
    /\ quant = "Exists"
    /\ width = 0
    /\ log \in Logs
    /\ line_nr = 0
    /\ wall_seconds = F64Zero
    /\ result = "Timeout"

(* One iteration of the loop over f.lines(). *)
ReadLine ==
    /\ pc = "scan"
    /\ line_nr < Len(log)
    /\ LET line == log[line_nr + 1]
           exit_code == EXIT_CODE(line)
           wall_time == WALL_TIME(line)
       IN  /\ result' = IF exit_code # NoCapture THEN ExitCodeOf(exit_code)
                        ELSE result
           /\ wall_seconds' = IF wall_time # NoCapture THEN ParseF64(wall_time)
                              ELSE wall_seconds
    /\ line_nr' = line_nr + 1
    /\ UNCHANGED <<pc, text, formula, depth, vectors, subs, results,
                   solver_results, quanttree_pos, fold_splits, fold_done,
                   quant, width, log>>

(* After the last line: the SolverResult returned. *)
ReturnResult ==
    /\ pc = "scan"
    /\ line_nr = Len(log)
    /\ results' = <<SolverResult(wall_seconds, result)>>
    /\ pc' = "extracted"
    /\ UNCHANGED <<text, formula, depth, vectors, subs, solver_results,
                   quanttree_pos, fold_splits, fold_done, quant, width>>
    /\ UNCHANGED logvars

NextLog == ReadLine \/ ReturnResult

SpecLog == InitLog /\ [][NextLog]_vars

-----------------------------------------------------------------------------
(* Vocabulary of the properties. *)

(* The unsigned value of a sign vector, first variable most significant.   *)
ValueOf(v) ==
    SumSeq([j \in 1..Len(v) |-> IF v[j] > 0 THEN 2 ^ (Len(v) - j) ELSE 0])

(* All sign vectors over the variables vs. *)
SignVectors(vs) ==
    {[j \in 1..Len(vs) |-> IF j \in pos THEN vs[j] ELSE -vs[j]] :
        pos \in SUBSET (1..Len(vs))}

(* Number of 0-based prefix positions that lie before the i-th split.      *)
PositionsBefore(f, i) == SumSeq([k \in 1..(i - 1) |-> Len(f.splits[k].vars)])

(* The quantifier of the first variable of a split (all its variables      *)
(* have the same after a successful parse).                                *)
QuantifierOf(f, s) ==
    IF f.prefix[PrefixPosition(f.prefix, s.vars[1])] < 0 THEN "Exists" ELSE "Forall"

-----------------------------------------------------------------------------
(* C1: each fold step of produce_statistics_from_run over a split s (with  *)
(* variables) aggregates existentially exactly when the variables of s     *)
(* are existentially quantified in the prefix, and universally exactly     *)
(* when they are universally quantified: the quantifier read at            *)
(* quanttree_pos is the quantifier of s.  Stated of the state in which     *)
(* the fold step over s is about to run.                                   *)
C1_FoldUsesQuantifierOfSplit ==
    (pc = "fold" /\ fold_done < Len(fold_splits)
        /\ Len(fold_splits[fold_done + 1].vars) > 0)
    => quant_from_prefix(formula, quanttree_pos)
           = QuantifierOf(formula, fold_splits[fold_done + 1])

(* C2: given one result per assumption vector of produce_splits(d) and     *)
(* the split_count of embedded_splits_round_fitting(d), the reducer never  *)
(* aborts (no failed assertion, no arithmetic underflow, no zero chunk     *)
(* width) and ends with exactly one fused result.                          *)
C2_ReducerNeverAborts ==
    /\ pc \notin {"underflow_panic", "width_panic", "len_panic"}
    /\ (pc = "done" => Len(solver_results) = 1)

(* C3: reduce_result returns, for every chunk: under Exists, Sat with the  *)
(* minimum wall time among the Sat elements if any element is Sat, else    *)
(* Unsat with the maximum wall time if all are Unsat, else Timeout; under  *)
(* Forall, Sat with the maximum wall time if all are Sat, else Unsat with  *)
(* the minimum wall time among the Unsat elements if any is Unsat, else    *)
(* Timeout.  [Sat 3, Unsat 5, Sat 7, Sat 9] gives Sat 3 under Exists and   *)
(* Unsat 5 under Forall.                                                   *)
C3_Example ==
    <<SolverResult(3, "Sat"), SolverResult(5, "Unsat"),
      SolverResult(7, "Sat"), SolverResult(9, "Sat")>>

C3_ChunkRule(q, chunk, out) ==
    LET idx == 1..Len(chunk)
        sat == {i \in idx : chunk[i].result = "Sat"}
        unsat == {i \in idx : chunk[i].result = "Unsat"}
        IsMinOf(t, S) == (\E i \in S : chunk[i].wall_seconds = t)
                         /\ (\A i \in S : t <= chunk[i].wall_seconds)
        IsMaxOf(t, S) == (\E i \in S : chunk[i].wall_seconds = t)
                         /\ (\A i \in S : t >= chunk[i].wall_seconds)
    IN  IF q = "Exists"
        THEN /\ (sat # {} => out.result = "Sat" /\ IsMinOf(out.wall_seconds, sat))
             /\ (sat = {} /\ unsat = idx
                    => out.result = "Unsat" /\ IsMaxOf(out.wall_seconds, unsat))
             /\ (sat = {} /\ unsat # idx => out.result = "Timeout")
        ELSE /\ (sat = idx => out.result = "Sat" /\ IsMaxOf(out.wall_seconds, sat))
             /\ (sat # idx /\ unsat # {}
                    => out.result = "Unsat" /\ IsMinOf(out.wall_seconds, unsat))
             /\ (sat # idx /\ unsat = {} => out.result = "Timeout")

C3_ReduceResultRule ==
    pc = "reduced"
    => /\ Len(solver_results) = Len(results) \div width
       /\ \A x \in 1..Len(solver_results) :
             C3_ChunkRule(quant,
                          [i \in 1..width |-> results[(x - 1) * width + i]],
                          solver_results[x])
       /\ (results = C3_Example /\ width = 4 /\ quant = "Exists"
             => solver_results = <<SolverResult(3, "Sat")>>)
       /\ (results = C3_Example /\ width = 4 /\ quant = "Forall"
             => solver_results = <<SolverResult(5, "Unsat")>>)

C3_Witness ==
    /\ pc = "reduced"
    /\ results = C3_Example
    /\ width = 4
    /\ quant = "Forall"
    /\ solver_results = <<SolverResult(5, "Unsat")>>

C4_WitnessLimit ==
    /\ pc = "split"
    /\ text = LongPrefixText
    /\ Len(formula.splits) = 64
    /\ depth = 2
    /\ Len(vectors) = 4

(* C5: in embedded mode produce_splits(d) covers the longest leading run   *)
(* of splits whose summed |vars| is <= d and returns exactly the sign      *)
(* vectors over the concatenated variables of the covered splits (first    *)
(* variable most significant, positive literal = bit 1) for which every    *)
(* covered split is satisfied by at least one of its constraints on its    *)
(* own slice, without duplicates, in strictly ascending order of their     *)
(* unsigned value.  IS 1 2 = 01 10 yields [-1, 2] then [1, -2]; IS 1 2 < 2 *)
(* yields 00 then 01.                                                      *)
C5_Covered(f, d) ==
    LET fits == {k \in 0..Len(f.splits) : PositionsBefore(f, k + 1) <= d}
    IN  CHOOSE k \in fits : \A j \in fits : j <= k

C5_ConstraintHolds(c, slice) ==
    \/ c.kind = "LessThan" /\ ValueOf(slice) < c.target[1][1]
    \/ c.kind = "GreaterThan" /\ ValueOf(slice) > c.target[1][1]
    \/ c.kind = "Equals"
         /\ \E t \in 1..Len(c.target) :
               \A p \in 1..Min(Len(slice), Len(c.target[t])) :
                   (c.target[t][p] = 1) <=> (slice[p] > 0)

C5_SplitHolds(s, slice) ==
    \E x \in 1..Len(s.constraints) : C5_ConstraintHolds(s.constraints[x], slice)

C5_Expected(f, d) ==
    LET m == C5_Covered(f, d)
        vs == Flatten([i \in 1..m |-> f.splits[i].vars])
    IN  {v \in SignVectors(vs) :
            \A i \in 1..m :
                C5_SplitHolds(f.splits[i],
                              [j \in 1..Len(f.splits[i].vars) |->
                                  v[PositionsBefore(f, i) + j]])}

C5_Equals0110 ==
    <<[vars |-> <<1, 2>>,
       constraints |-> <<[kind |-> "Equals", target |-> <<<<0, 1>>, <<1, 0>>>>]>>]>>

C5_LessThan2 ==
    <<[vars |-> <<1, 2>>,
       constraints |-> <<[kind |-> "LessThan", target |-> <<<<2>>>>]>>]>>

C5_EmbeddedEnumeration ==
    (pc = "split" /\ Len(formula.splits) > 0)
    => /\ {vectors[i] : i \in 1..Len(vectors)} = C5_Expected(formula, depth)
       /\ \A i \in 1..Len(vectors) : \A j \in (i + 1)..Len(vectors) :
             ValueOf(vectors[i]) < ValueOf(vectors[j])
       /\ (formula.splits = C5_Equals0110 /\ depth >= 2
             => vectors = <<(<<-1, 2>>), (<<1, -2>>)>>)
       /\ (formula.splits = C5_LessThan2 /\ depth >= 2
             => vectors = <<(<<-1, -2>>), (<<-1, 2>>)>>)

(* The Equals example. *)
C5_Witness ==
    /\ pc = "split"
    /\ formula.splits = C5_Equals0110
    /\ depth = 2
    /\ vectors = <<(<<-1, 2>>), (<<1, -2>>)>>

(* Two covered declared splits, of which the second one filters. *)
C5_WitnessTwoSplits ==
    /\ pc = "split"
    /\ Len(text.int_split_lines) = 2
    /\ Len(formula.splits[1].vars) = 2
    /\ Len(formula.splits[2].vars) = 1
    /\ depth = 3
    /\ Len(vectors) = 3

(* C6: for an IntegerSplit with k >= 1 vars and a single Equals constraint *)
(* with m alternatives of length k, nr_of_splits() is the number of        *)
(* pairwise distinct alternatives.                                         *)
C6_EqualsCount ==
    (pc = "counted"
        /\ Len(formula.splits[1].vars) >= 1
        /\ Len(formula.splits[1].constraints) = 1
        /\ formula.splits[1].constraints[1].kind = "Equals"
        /\ \A t \in 1..Len(formula.splits[1].constraints[1].target) :
              Len(formula.splits[1].constraints[1].target[t])
                  = Len(formula.splits[1].vars))
    => LET tg == formula.splits[1].constraints[1].target
       IN  width = Cardinality({tg[t] : t \in 1..Len(tg)})

(* C7: for an IntegerSplit with k vars and the single constraint           *)
(* LessThan b, nr_of_splits() = min(b, 2^k).                               *)
C7_LessThanCount ==
    (pc \in {"counted", "alone"}
        /\ Len(formula.splits[1].constraints) = 1
        /\ formula.splits[1].constraints[1].kind = "LessThan")
    => width = Min(formula.splits[1].constraints[1].target[1][1],
                   2 ^ Len(formula.splits[1].vars))

(* LessThan 3 over two variables: 3 of the 4 values. *)
C7_Witness ==
    /\ pc = "counted"
    /\ Len(formula.splits[1].vars) = 2
    /\ formula.splits[1].constraints = <<[kind |-> "LessThan", target |-> <<<<3>>>>]>>
    /\ width = 3

(* LessThan 1 written without variables: k = 0. *)
C7_WitnessNoVars ==
    /\ pc = "counted"
    /\ Len(formula.splits[1].vars) = 0
    /\ formula.splits[1].constraints = <<[kind |-> "LessThan", target |-> <<<<1>>>>]>>
    /\ width = 1

(* C8: for every split taken alone, the number of assumption vectors the   *)
(* embedded enumerator retains over its variables equals nr_of_splits().   *)
C8_EnumeratorAgreesWithCount ==
    pc = "alone" => Len(vectors) = width

(* C9: in every sub-formula built by process_formula_splits for a vector   *)
(* v, the prefix keeps its variable order, every variable that received a  *)
(* unit clause [v[j]] is existentially quantified, and every other prefix  *)
(* variable keeps the quantifier it had.                                   *)
C9_AssumedAreExistential ==
    pc = "emitted"
    => /\ Len(subs) = Len(vectors)
       /\ \A i \in 1..Len(subs) :
             LET assumed == {Abs(vectors[i][j]) : j \in 1..Len(vectors[i])}
                 p == subs[i].prefix
             IN  /\ Len(p) = Len(formula.prefix)
                 /\ \A k \in 1..Len(p) :
                       /\ Abs(p[k]) = Abs(formula.prefix[k])
                       /\ (Abs(p[k]) \in assumed => p[k] < 0)
                       /\ (Abs(p[k]) \notin assumed => p[k] = formula.prefix[k])

(* C10: after every successful parse the variables of all splits,          *)
(* concatenated in order, are the absolute values of the first k prefix    *)
(* entries for some k.                                                     *)
C10_SplitVarsArePrefix ==
    pc = "parsed"
    => LET vs == Flatten([i \in 1..Len(formula.splits) |-> formula.splits[i].vars])
       IN  /\ Len(vs) <= Len(formula.prefix)
           /\ \A j \in 1..Len(vs) : vs[j] = Abs(formula.prefix[j])

(* C11: after every successful parse all variables of any single split    *)
(* lie in the same quantifier block of the prefix, one maximal run of      *)
(* same-sign entries: no entry of the other sign stands between two of     *)
(* them.  A split whose variables lie in different blocks makes the parse  *)
(* fail, so no parsed formula has one.                                     *)
C11_InOneBlock(prefix, a, b) ==
    LET i == PrefixPosition(prefix, a)
        j == PrefixPosition(prefix, b)
    IN  /\ i # 0
        /\ j # 0
        /\ \A k \in i..j : sign(prefix[k]) = sign(prefix[i])

C11_SplitInOneBlock ==
    pc = "parsed"
    => \A i \in 1..Len(formula.splits) :
          \A a \in 1..Len(formula.splits[i].vars) :
             \A b \in 1..Len(formula.splits[i].vars) :
                C11_InOneBlock(formula.prefix,
                               formula.splits[i].vars[a], formula.splits[i].vars[b])

(* C12: in the Formula returned by parse_qdimacs, and in every sub-formula *)
(* process_formula_splits builds by appending unit clauses, nr_of_clauses  *)
(* equals the number of clauses in matrix.                                 *)
C12_ClauseCountTracksMatrix ==
    /\ (pc \in {"parsed", "split", "emitted", "emit_panic"}
          => formula.nr_of_clauses = Len(formula.matrix))
    /\ \A i \in 1..Len(subs) : subs[i].nr_of_clauses = Len(subs[i].matrix)

(* C13: extract_result_from_file scans the log lines in order and returns *)
(* the return code of the last line matching the exit-status probe         *)
(* (10 -> Sat, 20 -> Unsat, any other number -> Timeout) and the wall time *)
(* of the last line matching the runlim probe ("[runlim] real:" at the     *)
(* start of the line, optional blanks, a number with or without a          *)
(* fraction); lines matching neither probe change nothing, and a log with  *)
(* no matching line yields (Timeout, 0.0).  Stated of the lines read so    *)
(* far after every line, and of the result returned.                       *)
C13_DigitsAt(line, i, n) ==
    /\ n >= 1
    /\ i + n - 1 <= Len(line)
    /\ \A j \in i..(i + n - 1) : line[j] \in DigitChars
    /\ (i + n > Len(line) \/ line[i + n] \notin DigitChars)

C13_NumberAt(line, i) ==
    LET n == CHOOSE k \in 1..Len(line) : C13_DigitsAt(line, i, k)
    IN  SubSeq(line, i, i + n - 1)

C13_ExitMatches(line) ==
    {i \in 1..(Len(line) - 1) : line[i] = ExitedText /\ line[i + 1] \in DigitChars}

C13_ExitCode(line) ==
    LET m == C13_ExitMatches(line)
        i == CHOOSE h \in m : \A j \in m : h <= j
        number == DigitsValue(C13_NumberAt(line, i + 1))
    IN  IF number = 10 THEN "Sat" ELSE IF number = 20 THEN "Unsat" ELSE "Timeout"

C13_WallStarts(line) ==
    {s \in 2..Len(line) :
        /\ line[1] = RunlimText
        /\ \A j \in 2..(s - 1) : line[j] \in SpaceChars
        /\ line[s] \in DigitChars}

C13_WallTime(line) ==
    LET s == CHOOSE x \in C13_WallStarts(line) : TRUE
        whole == C13_NumberAt(line, s)
        e == s + Len(whole)
        fraction == IF e + 1 <= Len(line) /\ line[e] = "." /\ line[e + 1] \in DigitChars
                    THEN C13_NumberAt(line, e + 1)
                    ELSE <<>>
    IN  [whole |-> DigitsValue(whole), frac |-> StripTrailingZeros(fraction)]

C13_ExpectedCode(lines) ==
    LET m == {i \in 1..Len(lines) : C13_ExitMatches(lines[i]) # {}}
    IN  IF m = {} THEN "Timeout"
        ELSE C13_ExitCode(lines[CHOOSE i \in m : \A j \in m : j <= i])

C13_ExpectedWall(lines) ==
    LET m == {i \in 1..Len(lines) : C13_WallStarts(lines[i]) # {}}
    IN  IF m = {} THEN F64Zero
        ELSE C13_WallTime(lines[CHOOSE i \in m : \A j \in m : j <= i])

C13_LastMatchWins ==
    pc \in {"scan", "extracted"}
    => /\ result = C13_ExpectedCode(SubSeq(log, 1, line_nr))
       /\ wall_seconds = C13_ExpectedWall(SubSeq(log, 1, line_nr))
       /\ (pc = "extracted"
             => /\ line_nr = Len(log)
                /\ results = <<SolverResult(wall_seconds, result)>>)

(* C14: a log line "[runlim] real: N" where N is digits only, with no      *)
(* decimal point, sets the wall time of the result to N.  Stated of the    *)
(* state right after such a line is read.                                  *)
C14_DigitsOnlyLine(line) ==
    /\ C13_WallStarts(line) # {}
    /\ \A s \in C13_WallStarts(line) : \A j \in s..Len(line) : line[j] \in DigitChars

C14_IntegerWallTimeAccepted ==
    (pc \in {"scan", "extracted"} /\ line_nr >= 1 /\ C14_DigitsOnlyLine(log[line_nr]))
    => LET s == CHOOSE x \in C13_WallStarts(log[line_nr]) : TRUE
       IN  wall_seconds = [whole |-> DigitsValue(SubSeq(log[line_nr], s, Len(log[line_nr]))),
                           frac |-> <<>>]

(* C15: for each IS line written without variables, parse_qdimacs sets    *)
(* vars to the absolute values of the next width prefix entries starting   *)
(* at a cursor equal to the summed |vars| of all earlier splits, where     *)
(* width is the smallest n with 2^n >= bound for LessThan / GreaterThan    *)
(* (5 -> 3, 3 -> 2, 2 -> 1) and the common alternative length for Equals;  *)
(* the resulting vars are never empty.                                     *)
C15_Width(c) ==
    IF c.kind = "Equals" THEN Len(c.target[1])
    ELSE CHOOSE n \in 0..MaxPrefix :
            /\ 2 ^ n >= c.target[1][1]
            /\ \A m \in 0..(n - 1) : 2 ^ m < c.target[1][1]

C15_InferredVars ==
    /\ var_constraint_to_nr_of_bits(5) = 3
    /\ var_constraint_to_nr_of_bits(3) = 2
    /\ var_constraint_to_nr_of_bits(2) = 1
    /\ (pc = "parsed" /\ text.int_split_lines # <<>>)
       => \A i \in 1..Len(formula.splits) :
             text.int_split_lines[i].vars = <<>>
             => LET cursor == PositionsBefore(formula, i)
                    w == C15_Width(formula.splits[i].constraints[1])
                IN  /\ formula.splits[i].vars
                          = [j \in 1..w |-> Abs(formula.prefix[cursor + j])]
                    /\ formula.splits[i].vars # <<>>

(* C16: for every parsed formula and depth d covering the splits          *)
(* s_1 .. s_m (m >= 1), the list returned by produce_splits(d) has length  *)
(* nr_of_splits(s_1) * ... * nr_of_splits(s_m), and every contiguous block *)
(* of nr_of_splits(s_m) split IDs starting at a multiple of that width     *)
(* holds vectors that agree on all variables of s_1 .. s_(m-1) and differ  *)
(* only on the variables of s_m; the same holds at each later fold level   *)
(* j, with blocks of nr_of_splits(s_j) * ... * nr_of_splits(s_m) IDs, so   *)
(* each chunk the reducer folds is the set of children of one node of the  *)
(* split tree.                                                             *)
RECURSIVE C16_Product(_, _, _)
C16_Product(f, j, m) ==
    IF j > m THEN 1 ELSE nr_of_splits(f.splits[j]) * C16_Product(f, j + 1, m)

C16_Slice(f, j, v) ==
    SubSeq(v, PositionsBefore(f, j) + 1, PositionsBefore(f, j + 1))

C16_BlocksAreChildren(f, m, vs, j) ==
    LET b == C16_Product(f, j, m)
    IN  /\ b > 0
        /\ Len(vs) % b = 0
        /\ \A x \in 1..(Len(vs) \div b) :
              LET ids == ((x - 1) * b + 1)..(x * b)
              IN  /\ \A p \in ids : \A q \in ids :
                        SubSeq(vs[p], 1, PositionsBefore(f, j))
                            = SubSeq(vs[q], 1, PositionsBefore(f, j))
                  /\ Cardinality({C16_Slice(f, j, vs[p]) : p \in ids})
                        = nr_of_splits(f.splits[j])

C16_ChunksAreSiblings ==
    (pc = "split" /\ embedded_splits_round_fitting(formula, depth)[2] >= 1)
    => LET m == embedded_splits_round_fitting(formula, depth)[2]
       IN  /\ Len(vectors) = C16_Product(formula, 1, m)
           /\ (Len(vectors) > 0
                 => \A j \in 1..m : C16_BlocksAreChildren(formula, m, vectors, j))

====
